---- MODULE Spec2Model ----
(***************************************************************************)
(* RandomStringGeneratorBase<TChar> of src/main.cpp: the constructors that *)
(* normalise a charset into an owned std::basic_string, the one-time       *)
(* automatic seeding behind a function-local static std::once_flag, the    *)
(* two forms of get and the manual Seed.                                   *)
(*                                                                         *)
(* Symbols are strings; NUL is TChar() (the terminator of a literal).      *)
(* The seed and random strategies are the caller's std::function objects:  *)
(* the seed strategy of a generator is an instrumented counter, the random *)
(* strategy is either stateless ("first": always index 0) or stateful      *)
(* ("cycle": the fixed sequence 0,1,0,1,... kept inside the function       *)
(* object).                                                                *)
(***************************************************************************)
EXTENDS Integers, Sequences, FiniteSets, TLC

VARIABLES
    gens,       \* the generators constructed so far, in construction order
    storage,    \* storage[g]: the caller's array / string / container passed to generator g
    flag,       \* flag[t]: the static std::once_flag of instantiation RandomStringGeneratorBase<t>
    seedCount,  \* seedCount[g]: invocations of generator g's stored _seed
    seedOps,    \* seedOps[g]: calls of g.Seed() made by the caller
    autoSeeds,  \* executions of the std::call_once body, process-wide
    out,        \* the last get call: its arguments, the buffer after it, the _rand calls it made
    prev,       \* the get call before that, kept while the caller repeats the same request
    thr,        \* thr[th]: where thread th is inside its constructor call
    build       \* what the build makes of the signed overflow of the loop counter

vars == <<gens, storage, flag, seedCount, seedOps, autoSeeds, out, prev, thr, build>>

----------------------------------------------------------------------------
(* Bounds of the model. *)

\* width of int, the type of the loop counter i (scaled down)
IntBits == 4
\* width of size_t, the type of outSize (scaled down)
SizeBits == 6
\* longest logical charset a caller supplies
MaxCharsetLen == 2
\* generators constructed by one process
MaxGens == 2
\* manual Seed calls by one process
MaxSeedOps == 2
\* threads constructing generators concurrently
NumThreads == 2
\* longest output requested in the ordinary range
MaxLen == 4

IntMax == 2 ^ (IntBits - 1) - 1
IntMin == -(2 ^ (IntBits - 1))
\* the output sizes requested: the ordinary ones, and those around INT_MAX
OutSizes == (0..MaxLen) \cup (IntMax..(IntMax + 2))

----------------------------------------------------------------------------
(* Symbols and inputs. *)

NUL == "NUL"
BLANK == " "
Symbols == {"a", "b"}
AnySym == Symbols \cup {NUL}

TChars == {"char", "wchar_t"}
RandKinds == {"first", "cycle"}
Forms == {"array", "pointer", "container"}
BuildKinds == {"wrap", "widen"}

SeqsUpTo(S, n) == UNION {[1..m -> S] : m \in 0..n}

\* the symbols a caller means to supply
Logicals == SeqsUpTo(Symbols, MaxCharsetLen)

\* what the caller's storage holds for each constructor form: an array is its
\* elements (a literal carries its terminator as the last element, and an array
\* has at least one element), a pointer points at terminated data, a container
\* holds its elements
RawInputs(form) ==
    CASE form = "array" -> (Logicals \ {<<>>}) \cup {Append(s, NUL) : s \in Logicals}
      [] form = "pointer" -> {Append(s, NUL) : s \in Logicals}
      [] form = "container" -> Logicals

----------------------------------------------------------------------------
(* Construction: every overload delegates to the basic_string constructor. *)

\* a constructor that takes every array for a literal and drops its last element
FromArrayLessOne(arr) == SubSeq(arr, 1, Len(arr) - 1)

\* std::basic_string<TChar>(charsetArray, charsetArray + size)
FromArray(arr) == SubSeq(arr, 1, Len(arr))

\* std::char_traits<TChar>::length: the offset of the first terminator
RECURSIVE StrLen(_, _)
StrLen(mem, i) ==
    IF i > Len(mem) \/ mem[i] = NUL THEN i - 1 ELSE StrLen(mem, i + 1)

\* std::basic_string<TChar>(charsetString)
FromPointer(mem) == SubSeq(mem, 1, StrLen(mem, 1))

\* std::basic_string<TChar>(charset.data(), charset.data() + charset.size())
FromContainer(c) == SubSeq(c, 1, Len(c))

Normalize(form, data) ==
    CASE form = "array" -> FromArray(data)
      [] form = "pointer" -> FromPointer(data)
      [] form = "container" -> FromContainer(data)

\* a generator that points at the caller's storage instead of copying it
CharsetView(g) ==
    CASE gens[g].form = "array" -> storage[g]
      [] gens[g].form = "pointer" -> SubSeq(storage[g], 1, StrLen(storage[g], 1))
      [] gens[g].form = "container" -> storage[g]

\* the member _charset of generator g: a std::basic_string held by value
_charset(g) == gens[g].charset

\* a get that leaves the last symbol out of the range it samples
CharsetSizeLessOne(g) == Len(_charset(g)) - 1

\* _charset.size()
CharsetSize(g) == Len(_charset(g))

\* a Seed that does nothing once the instantiation's once_flag is set
SeedUnlessSeeded(counts, g) ==
    IF g \in DOMAIN gens /\ flag[gens[g].TChar] = "done"
    THEN counts
    ELSE [counts EXCEPT ![g] = @ + 1]

\* Seed() { _seed(); }: one more invocation of generator g's stored seed
\* strategy, whatever the once_flag says
_seed(counts, g) == [counts EXCEPT ![g] = @ + 1]

\* the member initialisers of the delegated-to constructor
NewGen(form, data, t, r) ==
    [TChar |-> t, charset |-> Normalize(form, data), rand |-> r, k |-> 0,
     form |-> form, data |-> data]

\* A whole constructor call by a single thread: member initialisation, then
\* std::call_once on the once_flag of this instantiation, whose body is Seed().
Construct(form, data, t, r) ==
    /\ gens' = Append(gens, NewGen(form, data, t, r))
    /\ storage' = Append(storage, data)
    /\ seedOps' = Append(seedOps, 0)
    /\ IF flag[t] = "idle"
       THEN /\ seedCount' = _seed(Append(seedCount, 0), Len(gens) + 1)
            /\ autoSeeds' = autoSeeds + 1
            /\ flag' = [flag EXCEPT ![t] = "done"]
       ELSE /\ seedCount' = Append(seedCount, 0)
            /\ UNCHANGED <<autoSeeds, flag>>
    /\ UNCHANGED <<out, prev, thr, build>>

----------------------------------------------------------------------------
(* Manual seeding. *)

Seed(g) ==
    /\ g \in DOMAIN gens
    /\ seedCount' = _seed(seedCount, g)
    /\ seedOps' = [seedOps EXCEPT ![g] = @ + 1]
    /\ UNCHANGED <<gens, storage, flag, autoSeeds, out, prev, thr, build>>

----------------------------------------------------------------------------
(* The caller's storage after construction. *)

Other(sym) == IF sym = "a" THEN "b" ELSE "a"

\* the caller overwrites the first element of what it passed, or destroys it
CallerModify(g, how) ==
    /\ g \in DOMAIN gens
    /\ storage[g] = gens[g].data
    /\ how = "overwrite" => Len(storage[g]) > 0
    /\ storage' = [storage EXCEPT ![g] =
                      IF how = "overwrite"
                      THEN [@ EXCEPT ![1] = Other(@)]
                      ELSE <<>>]
    /\ UNCHANGED <<gens, flag, seedCount, seedOps, autoSeeds, out, prev, thr, build>>

----------------------------------------------------------------------------
(* get. *)

\* the usual arithmetic conversion of the int i to size_t in i < outSize
ToSizeT(i) == i % (2 ^ SizeBits)

\* i++ on an int: past INT_MAX the behaviour is undefined; a build either wraps
\* the 32-bit register or keeps the counter in a wider one
Incr(i) ==
    IF i = IntMax
    THEN IF build = "wrap" THEN IntMin ELSE i + 1
    ELSE i + 1

\* _rand(range) for the two strategies: the value returned in state k
RandReturn(kind, k, range) == IF kind = "cycle" THEN k ELSE 0

\* the state of the strategy after that call
RandAfter(kind, k) == IF kind = "cycle" THEN 1 - k ELSE k

\* _charset[pos]: basic_string::operator[] yields TChar() at pos = size(); past
\* it the read is out of bounds and yields whatever is there
CharAt(cs, pos, junk) ==
    IF pos < Len(cs) THEN cs[pos + 1]
    ELSE IF pos = Len(cs) THEN NUL
    ELSE junk

\* out[i] = sym
Store(buf, i, sym) ==
    IF i >= 0 /\ i < Len(buf) THEN [buf EXCEPT ![i + 1] = sym] ELSE buf

\* for (int i = 0; i < outSize; i++) out[i] = _charset[_rand(_charset.size())];
RECURSIVE GetLoop(_, _, _, _)
GetLoop(g, outSize, junk, st) ==
    IF ToSizeT(st.i) < outSize
    THEN LET range == CharsetSize(g)
             r == RandReturn(gens[g].rand, st.k, range)
         IN GetLoop(g, outSize, junk,
                [i |-> Incr(st.i),
                 k |-> RandAfter(gens[g].rand, st.k),
                 buf |-> Store(st.buf, st.i, CharAt(_charset(g), r, junk)),
                 written |-> st.written \cup {st.i},
                 args |-> Append(st.args, range),
                 idx |-> Append(st.idx, r),
                 overflow |-> st.overflow \/ st.i = IntMax])
    ELSE st

NoCall == [g |-> 0, form |-> "none", outSize |-> 0]

\* the call before this one, when this one repeats it: the same form of get on
\* the same generator with the same outSize
Repeated(g, form, outSize) ==
    IF out.g = g /\ out.form = form /\ out.outSize = outSize THEN out ELSE NoCall

\* the junk an out-of-bounds read of generator g's charset can yield
Junk(g) == IF gens[g].rand = "cycle" /\ Len(gens[g].charset) = 0 THEN AnySym ELSE {NUL}

\* the record of a get call on generator g that ran the loop from st0 to st
Call(g, form, outSize, st0, st) ==
    [g |-> g, form |-> form, outSize |-> outSize, k0 |-> st0.k,
     buf |-> st.buf, written |-> st.written, args |-> st.args, idx |-> st.idx,
     i |-> st.i, overflow |-> st.overflow]

Fill(n, sym) == [j \in 1..n |-> sym]

\* a get that invokes the strategy once before its loop
StartAfterExtraCall(g, buf) ==
    [i |-> 0, k |-> RandAfter(gens[g].rand, gens[g].k), buf |-> buf, written |-> {},
     args |-> <<>>, idx |-> <<>>, overflow |-> FALSE]

\* the state a get call starts its loop in: int i = 0, nothing written
Start(g, buf) ==
    [i |-> 0, k |-> gens[g].k, buf |-> buf, written |-> {}, args |-> <<>>,
     idx |-> <<>>, overflow |-> FALSE]

\* get(TChar *out, size_t outSize) on a caller's buffer of outSize symbols
Get(g, outSize, junk) ==
    /\ g \in DOMAIN gens
    /\ LET st0 == Start(g, Fill(outSize, BLANK))
           st == GetLoop(g, outSize, junk, st0)
       IN /\ out' = Call(g, "buffer", outSize, st0, st)
          /\ gens' = [gens EXCEPT ![g].k = st.k]
    /\ prev' = Repeated(g, "buffer", outSize)
    /\ UNCHANGED <<storage, flag, seedCount, seedOps, autoSeeds, thr, build>>

\* get<T>(size_t outSize): T result(outSize, {}); get(result.data(), result.size())
GetContainer(g, outSize, junk) ==
    /\ g \in DOMAIN gens
    /\ LET result == Fill(outSize, NUL)
           st0 == Start(g, result)
           st == GetLoop(g, Len(result), junk, st0)
       IN /\ out' = Call(g, "container", outSize, st0, st)
          /\ gens' = [gens EXCEPT ![g].k = st.k]
    /\ prev' = Repeated(g, "container", outSize)
    /\ UNCHANGED <<storage, flag, seedCount, seedOps, autoSeeds, thr, build>>

----------------------------------------------------------------------------
(* One process, one thread. *)

Threads == 1..NumThreads

Init ==
    /\ gens = <<>>
    /\ storage = <<>>
    /\ flag = [t \in TChars |-> "idle"]
    /\ seedCount = <<>>
    /\ seedOps = <<>>
    /\ autoSeeds = 0
    /\ out = NoCall
    /\ prev = NoCall
    /\ thr = [th \in Threads |-> [pc |-> "idle", g |-> 0]]
    /\ build \in BuildKinds

SumOps == LET RECURSIVE Sum(_)
              Sum(s) == IF s = <<>> THEN 0 ELSE Head(s) + Sum(Tail(s))
          IN Sum(seedOps)

\* a program that constructs one narrow generator and uses it
ConstructOne ==
    /\ gens = <<>>
    /\ \E form \in Forms : \E data \in RawInputs(form) : \E r \in RandKinds :
          Construct(form, data, "char", r)

GetBuffer == \E g \in DOMAIN gens : \E n \in OutSizes : \E junk \in Junk(g) : Get(g, n, junk)

GetResult == \E g \in DOMAIN gens : \E n \in OutSizes : \E junk \in Junk(g) : GetContainer(g, n, junk)

Next == ConstructOne \/ GetBuffer \/ GetResult

Spec == Init /\ [][Next]_vars

----------------------------------------------------------------------------
(* One process that constructs a generator, then changes or destroys what  *)
(* it passed to the constructor while it uses the generator.               *)

SeedManually == SumOps < MaxSeedOps /\ \E g \in DOMAIN gens : Seed(g)

ModifyStorage == \E g \in DOMAIN gens : \E how \in {"overwrite", "destroy"} : CallerModify(g, how)

GetEither ==
    \E g \in DOMAIN gens : \E n \in {0, MaxLen} : \E junk \in Junk(g) :
        Get(g, n, junk) \/ GetContainer(g, n, junk)

NextOwner == ConstructOne \/ GetEither \/ SeedManually \/ ModifyStorage

SpecOwner == Init /\ [][NextOwner]_vars

----------------------------------------------------------------------------
(* One process that constructs several generators of one symbol type from  *)
(* the three shapes of input.                                              *)

ConstructShapes ==
    /\ Len(gens) < MaxGens
    /\ \E form \in Forms : \E data \in RawInputs(form) :
          Construct(form, data, "char", "first")

NextForms == ConstructShapes

SpecForms == Init /\ [][NextForms]_vars

----------------------------------------------------------------------------
(* One process that constructs narrow and wide generators from string      *)
(* literals, as main does, and seeds them manually.                        *)

ConstructTyped ==
    /\ Len(gens) < MaxGens
    /\ \E data \in RawInputs("pointer") : \E t \in TChars :
          Construct("pointer", data, t, "first")

NextSeeds == ConstructTyped \/ SeedManually

SpecSeeds == Init /\ [][NextSeeds]_vars

----------------------------------------------------------------------------
(* Several threads, each constructing one generator: the constructor as    *)
(* its steps, std::call_once with its three outcomes (the flag is set: go  *)
(* on; no execution is active: run the body; one is active: wait for it).  *)

At(th, pc) == thr[th].pc = pc

\* the member initialisers: _charset, _seed and _rand are set
CtorEnter(th, data, t) ==
    /\ At(th, "idle")
    /\ gens' = Append(gens, NewGen("pointer", data, t, "first"))
    /\ storage' = Append(storage, data)
    /\ seedCount' = Append(seedCount, 0)
    /\ seedOps' = Append(seedOps, 0)
    /\ thr' = [thr EXCEPT ![th] = [pc |-> "call_once", g |-> Len(gens) + 1]]
    /\ UNCHANGED <<flag, autoSeeds, out, prev, build>>

\* std::call_once(flag, ...): blocked while another execution is active
CallOnce(th) ==
    /\ At(th, "call_once")
    /\ LET t == gens[thr[th].g].TChar
       IN \/ /\ flag[t] = "done"
             /\ thr' = [thr EXCEPT ![th].pc = "return"]
             /\ UNCHANGED flag
          \/ /\ flag[t] = "idle"
             /\ flag' = [flag EXCEPT ![t] = "active"]
             /\ thr' = [thr EXCEPT ![th].pc = "seed"]
    /\ UNCHANGED <<gens, storage, seedCount, seedOps, autoSeeds, out, prev, build>>

\* the body of the call_once: Seed()
RunSeed(th) ==
    /\ At(th, "seed")
    /\ seedCount' = _seed(seedCount, thr[th].g)
    /\ autoSeeds' = autoSeeds + 1
    /\ thr' = [thr EXCEPT ![th].pc = "seeded"]
    /\ UNCHANGED <<gens, storage, flag, seedOps, out, prev, build>>

\* the body returned: the flag is set and the waiting threads are released
FinishOnce(th) ==
    /\ At(th, "seeded")
    /\ flag' = [flag EXCEPT ![gens[thr[th].g].TChar] = "done"]
    /\ thr' = [thr EXCEPT ![th].pc = "return"]
    /\ UNCHANGED <<gens, storage, seedCount, seedOps, autoSeeds, out, prev, build>>

\* the constructor returns: the caller holds a generator
CtorReturn(th) ==
    /\ At(th, "return")
    /\ thr' = [thr EXCEPT ![th].pc = "constructed"]
    /\ UNCHANGED <<gens, storage, flag, seedCount, seedOps, autoSeeds, out, prev, build>>

\* the thread uses the generator it constructed
ThreadGet(th, outSize) ==
    /\ At(th, "constructed")
    /\ Get(thr[th].g, outSize, NUL)

Enter == \E th \in Threads : \E data \in RawInputs("pointer") : \E t \in TChars : CtorEnter(th, data, t)

Once == \E th \in Threads : CallOnce(th)

Seeding == \E th \in Threads : RunSeed(th)

Finish == \E th \in Threads : FinishOnce(th)

Return == \E th \in Threads : CtorReturn(th)

Use == \E th \in Threads : \E n \in 0..1 : ThreadGet(th, n)

NextThreads == Enter \/ Once \/ Seeding \/ Finish \/ Return \/ Use

SpecThreads == Init /\ [][NextThreads]_vars

----------------------------------------------------------------------------
(* Properties. *)

Range(seq) == {seq[j] : j \in DOMAIN seq}

Made(c) == c.g # 0

\* every index the strategy returned in call c is inside the charset
InRange(c) == \A j \in DOMAIN c.idx : c.idx[j] < CharsetSize(c.g)

\* every read of the charset in call c is one operator[] defines
Defined(c) == \A j \in DOMAIN c.idx : c.idx[j] <= CharsetSize(c.g)

\* C1: for a non-empty charset and a strategy that returns indices inside it,
\* either form of get leaves exactly outSize symbols, every position 0..outSize-1
\* written, and every symbol an element of the charset.
C1_ExactLengthFromCharset ==
    (Made(out) /\ CharsetSize(out.g) > 0 /\ InRange(out))
        => /\ Len(out.buf) = out.outSize
           /\ out.written = 0..(out.outSize - 1)
           /\ \A j \in DOMAIN out.buf : out.buf[j] \in Range(_charset(out.g))

\* the positions the loop of call c wrote hold the charset's symbol at the index
\* the strategy returned for them, in order
WritesFollowIndices(c) ==
    \A j \in DOMAIN c.idx :
        (j - 1 \in c.written /\ c.idx[j] < CharsetSize(c.g))
            => c.buf[j] = _charset(c.g)[c.idx[j] + 1]

\* C9: a buffer-form get of outSize symbols invokes the strategy exactly outSize
\* times and writes out[i] = charset[r_i] for the i-th returned index; "ab" with
\* the cycle 0,1,0,1 and outSize 4 gives "abab"; outSize 0 invokes nothing and
\* writes nothing.
C9_OneInvocationPerSymbol ==
    (Made(out) /\ out.form = "buffer")
        => /\ Len(out.idx) = out.outSize
           /\ out.written = 0..(out.outSize - 1)
           /\ WritesFollowIndices(out)
           /\ (/\ _charset(out.g) = <<"a", "b">>
               /\ gens[out.g].rand = "cycle"
               /\ out.k0 = 0
               /\ out.outSize = 4) => out.buf = <<"a", "b", "a", "b">>
           /\ out.outSize = 0 => (out.idx = <<>> /\ out.written = {})

\* C10: the buffer-form get runs exactly outSize iterations for every outSize,
\* and its int counter never passes INT_MAX.
C10_CounterStaysInInt ==
    (Made(out) /\ out.form = "buffer")
        => (~out.overflow /\ Len(out.idx) = out.outSize)

\* Short of INT_MAX the loop does what C1, C9 and C10 say of every outSize.
WithinIntRange ==
    (Made(out) /\ out.outSize <= IntMax)
        => /\ ~out.overflow
           /\ Len(out.idx) = out.outSize
           /\ Len(out.buf) = out.outSize
           /\ out.written = 0..(out.outSize - 1)
           /\ WritesFollowIndices(out)
           /\ (CharsetSize(out.g) > 0 /\ InRange(out))
                  => \A j \in DOMAIN out.buf : out.buf[j] \in Range(_charset(out.g))

\* C4, as stated: repeating a get on the same generator with a deterministic
\* strategy gives the same output as the call before.
C4_RepeatIdentical == Made(prev) => out.buf = prev.buf

\* C4, amended: repeating a get gives the same output when the strategy is
\* stateless, or when the call before invoked the cycling strategy a whole number
\* of periods (so that it starts both calls in the same state), the indices being
\* ones the charset defines.
C4_RepeatIdenticalFromSameState ==
    (/\ Made(prev)
     /\ Defined(prev) /\ Defined(out)
     /\ gens[out.g].rand = "first" \/ Len(prev.idx) % 2 = 0)
        => out.buf = prev.buf

C4_Witness ==
    /\ Made(prev)
    /\ gens[out.g].rand = "cycle"
    /\ CharsetSize(out.g) = 2
    /\ out.outSize = 2
    /\ out.buf = <<"a", "b">>
    /\ prev.buf = <<"a", "b">>

\* C6, as stated: the strategy is only ever invoked with the charset's length,
\* and that length is positive, for every generator that can be constructed.
C6_RandArgPositive ==
    Made(out) => \A j \in DOMAIN out.args :
                    out.args[j] = CharsetSize(out.g) /\ out.args[j] > 0

\* the caller supplied no symbol: an empty container, or a pointer at a terminator
SuppliedNothing(g) ==
    \/ gens[g].form = "container" /\ gens[g].data = <<>>
    \/ gens[g].form = "pointer" /\ gens[g].data = <<NUL>>

\* C6, amended: the strategy is only ever invoked with the stored charset's
\* length, which is positive exactly when the caller supplied a symbol: a
\* generator constructed from an empty sequence or string invokes it with 0.
C6_RandArgIsCharsetSize ==
    Made(out) => \A j \in DOMAIN out.args :
                    /\ out.args[j] = Len(Normalize(gens[out.g].form, gens[out.g].data))
                    /\ out.args[j] > 0 <=> ~SuppliedNothing(out.g)

C6_Witness ==
    /\ Made(out)
    /\ SuppliedNothing(out.g)
    /\ out.args = <<0>>

NoSentinel(g) == gens[g].form = "array" => gens[g].data[Len(gens[g].data)] # NUL

\* the symbols the caller's input holds: terminated data less its terminator
Logical(g) ==
    IF gens[g].form = "pointer"
    THEN [j \in 1..(Len(gens[g].data) - 1) |-> gens[g].data[j]]
    ELSE gens[g].data

C2_OneAutoSeedProcessWide ==
    Len(gens) >= 1
        => /\ autoSeeds = 1
           /\ seedCount[1] = seedOps[1] + 1
           /\ \A g \in DOMAIN gens : g > 1 => seedCount[g] = seedOps[g]

\* C8: a call of Seed on a generator invokes that generator's seed strategy
\* once more, and changes nothing else: not another generator's strategy, not
\* a charset, not a once_flag, whoever performed the automatic seeding.
C8_SeedInvokesOnce ==
    [][\A g \in DOMAIN seedOps :
          seedOps'[g] = seedOps[g] + 1
              => /\ seedCount'[g] = seedCount[g] + 1
                 /\ \A h \in DOMAIN seedCount : h # g => seedCount'[h] = seedCount[h]
                 /\ gens' = gens
                 /\ flag' = flag
                 /\ autoSeeds' = autoSeeds]_vars

C8_Witness ==
    \E g, h \in DOMAIN gens :
        /\ g # h
        /\ gens[g].TChar = gens[h].TChar
        /\ seedOps[g] = 0 /\ seedCount[g] = 1
        /\ seedOps[h] = MaxSeedOps /\ seedCount[h] = MaxSeedOps

\* C3: when threads construct generators concurrently the automatic seeding
\* runs exactly once, and a constructor returns only after that one seeding
\* has completed.
C3_SeededOnceBeforeAnyReturn ==
    /\ autoSeeds <= 1
    /\ \A th \in Threads :
          At(th, "constructed")
              => /\ autoSeeds = 1
                 /\ \A other \in Threads : ~At(other, "seed")

\* Within one instantiation the once_flag does what C3 says: one execution of
\* the body per symbol type, complete before any constructor of that type returns.
SeedsOfType(t) == {g \in DOMAIN gens : gens[g].TChar = t /\ seedCount[g] > 0}

OncePerInstantiation ==
    /\ \A t \in TChars : Cardinality(SeedsOfType(t)) <= 1
    /\ \A g \in DOMAIN gens : seedCount[g] <= 1
    /\ \A th \in Threads :
          At(th, "constructed")
              => /\ flag[gens[thr[th].g].TChar] = "done"
                 /\ Cardinality(SeedsOfType(gens[thr[th].g].TChar)) = 1

====
